---- MODULE Spec2Model ----
(***************************************************************************)
(* Model of IMLearn/learners/classifiers/decision_stump.py: the            *)
(* DecisionStump estimator (threshold_, j_, sign_), its _fit, _predict     *)
(* and _loss, and the threshold search _find_threshold.                    *)
(*                                                                         *)
(* Numbers.  Feature values and labels are integers.  _find_threshold      *)
(* divides the labels by sum_of_labels (line 121); the model keeps every   *)
(* normalised label and every loss as its exact numerator over that        *)
(* denominator, so a loss e of the code is the integer e * sum_of_labels   *)
(* here (loss 1.0 is sum_of_labels, "+ 1" of line 132 is "+ sum_of_labels")*)
(* and no rounding takes place.  Thresholds and best_loss range over the   *)
(* reals extended with -inf, +inf and Python's None, kept as records.      *)
(*                                                                         *)
(* Indices.  Sequences are 1-based: Python's index k is k + 1 here, except *)
(* for j_, which holds the 0-based column index the code stores.           *)
(***************************************************************************)
EXTENDS Integers, Sequences, FiniteSets, TLC

\* ---------------------------------------------------------------- bounds
\* _find_threshold on its own: vector length and feature values 1..MaxVal
MaxLen == 3
MaxVal == 2
\* labels are 0, +-1 and +-HeavyWeight (class in the sign, weight in the size)
HeavyWeight == 3

\* _fit on its own: training matrices of at most FitRows rows and FitCells
\* entries, feature values 1..MaxFeat
FitRows == 3
FitCells == 6
MaxFeat == 2
\* the estimator's life: smaller training matrices, and test matrices of at
\* most TestCells entries
LifeRows == 2
LifeCells == 4
TestCells == 2

VARIABLES
    ft_values, ft_labels, ft_sign,  \* arguments of a _find_threshold call
    ft_ret,                         \* what the call returned: (thr, thr_err)
    X, y,                           \* the training data given to _fit
    threshold_, j_, sign_,          \* the estimator's attributes
    best_loss,                      \* _fit's local best_loss when it returned
    tried,                          \* what _fit's _find_threshold calls returned
    Xt, responses,                  \* the last call, if _predict: argument, result
    loss_ret                        \* the last call, if _loss: result

vars == <<ft_values, ft_labels, ft_sign, ft_ret, X, y,
          threshold_, j_, sign_, best_loss, tried, Xt, responses, loss_ret>>

ft_vars == <<ft_values, ft_labels, ft_sign, ft_ret>>
data_vars == <<X, y>>
model_vars == <<threshold_, j_, sign_, best_loss, tried>>
call_vars == <<Xt, responses, loss_ret>>

\* ------------------------------------------------------- extended reals
None == [kind |-> "none", val |-> 0]
IntOf(v) == [kind |-> "int", val |-> v]
NegInf == [kind |-> "ninf", val |-> 0]
PosInf == [kind |-> "inf", val |-> 0]
Fin(v) == [kind |-> "fin", val |-> v]

\* a < b on floats, either of which may be an infinity
Lt(a, b) ==
    CASE a.kind = "ninf" -> b.kind # "ninf"
      [] a.kind = "inf" -> FALSE
      [] OTHER -> b.kind = "inf" \/ (b.kind = "fin" /\ a.val < b.val)

\* ------------------------------------------------------------- helpers
Abs(x) == IF x < 0 THEN -x ELSE x

RECURSIVE SumSeq(_)
SumSeq(s) == IF s = <<>> THEN 0 ELSE Head(s) + SumSeq(Tail(s))

\* the longest vector any specification sorts
MaxSize ==
    LET m == IF MaxLen > FitRows THEN MaxLen ELSE FitRows
    IN IF m > LifeRows THEN m ELSE LifeRows

\* the index arrays of length n: the permutations of 1..n
Injective(p) == \A i, k \in DOMAIN p : p[i] = p[k] => i = k

RECURSIVE PermsUpTo(_)
PermsUpTo(n) ==
    IF n = 0 THEN <<>>
    ELSE Append(PermsUpTo(n - 1),
                {p : p \in {q \in [1..n -> 1..n] : Injective(q)}})

PermTable == PermsUpTo(MaxSize)

Perms(n) == PermTable[n]

Take(s, p) == [i \in 1..Len(s) |-> s[p[i]]]

\* ------------------------------------------------------ _find_threshold
\* The orders vl[:, 0].argsort() may produce: values ascending, samples of
\* equal value in any order (the default sort is not stable).
argsort(values) ==
    {p \in Perms(Len(values)) :
        \A i \in 1..(Len(values) - 1) : values[p[i]] <= values[p[i + 1]]}

sum_of_labels(labels) == SumSeq([i \in 1..Len(labels) |-> Abs(labels[i])])

\* mutants of loss0: the agreeing samples summed; the sum left signed
loss0_agreeing(labels, sign) ==
    Abs(SumSeq([i \in 1..Len(labels) |->
                  IF labels[i] * sign > 0 THEN labels[i] ELSE 0]))

loss0_signed(labels, sign) ==
    SumSeq([i \in 1..Len(labels) |->
              IF labels[i] * sign < 0 THEN labels[i] ELSE 0])

\* loss[0]: the weight of the samples whose label disagrees with sign
loss0(labels, sign) ==
    Abs(SumSeq([i \in 1..Len(labels) |->
                  IF labels[i] * sign < 0 THEN labels[i] ELSE 0]))

\* mutant of loss_step: the increment subtracted
loss_step_minus(prev, label, sign) == prev - label * sign

\* loss[i - 1] + labels[i - 1] * sign
loss_step(prev, label, sign) == prev + label * sign

\* one turn of the loop of lines 128-131: loss[i] is appended
extend_loss(prev, label, sign) ==
    Append(prev, loss_step(prev[Len(prev)], label, sign))

\* loss[0 .. n-1] as the loop of lines 128-131 leaves it
RECURSIVE raw_loss(_, _, _)
raw_loss(labels, sign, n) ==
    IF n = 1 THEN <<loss0(labels, sign)>>
    ELSE extend_loss(raw_loss(labels, sign, n - 1), labels[n - 1], sign)

\* mutant of is_first_time: positions inside a run of equal values kept
is_first_time_always(values, i) == TRUE

\* is_first_time[i] == 1
is_first_time(values, i) == i = 1 \/ values[i - 1] # values[i]

RECURSIVE MaxOf(_)
MaxOf(s) ==
    IF Len(s) = 1 THEN s[1]
    ELSE LET m == MaxOf(Tail(s)) IN IF s[1] > m THEN s[1] ELSE m

\* np.max(loss) + 1, taken before any position is masked
maxi(loss, labels) == MaxOf(loss) + sum_of_labels(labels)

\* loss[0 .. n-1] after loss[is_first_time != 1] = m
RECURSIVE mask(_, _, _, _)
mask(values, loss, m, n) ==
    IF n = 0 THEN <<>>
    ELSE Append(mask(values, loss, m, n - 1),
                IF is_first_time(values, n) THEN loss[n] ELSE m)

\* lines 132-133 on the loss vector the loop has filled
mask_ties(values, labels, loss) ==
    mask(values, loss, maxi(loss, labels), Len(values))

\* the loss vector at line 134
masked_loss(values, labels, sign) ==
    mask_ties(values, labels, raw_loss(labels, sign, Len(labels)))

\* np.argmin: the first position of the minimum
argmin(loss) ==
    CHOOSE i \in 1..Len(loss) :
        /\ \A k \in 1..Len(loss) : loss[i] <= loss[k]
        /\ \A k \in 1..(i - 1) : loss[k] > loss[i]

\* mutants of last_index_case: +inf returned without the correction term;
\* the sign = -1 branch a copy of the sign = 1 branch
last_index_case_uncorrected(values, labels, sign, loss, index) ==
    IF (sign = 1) = (labels[index] > 0)
    THEN [thr |-> Fin(values[index]), thr_err |-> loss[index]]
    ELSE [thr |-> PosInf, thr_err |-> loss[index]]

last_index_case_one_sided(values, labels, sign, loss, index) ==
    IF labels[index] > 0
    THEN [thr |-> Fin(values[index]), thr_err |-> loss[index]]
    ELSE [thr |-> PosInf, thr_err |-> loss[index] + labels[index]]

\* the branch index == len(labels) - 1
last_index_case(values, labels, sign, loss, index) ==
    IF sign = 1
    THEN IF labels[index] > 0
         THEN [thr |-> Fin(values[index]), thr_err |-> loss[index]]
         ELSE [thr |-> PosInf, thr_err |-> loss[index] + labels[index]]
    ELSE IF labels[index] > 0
         THEN [thr |-> PosInf, thr_err |-> loss[index] - labels[index]]
         ELSE [thr |-> Fin(values[index]), thr_err |-> loss[index]]

\* lines 135-156: the threshold and error for the chosen index
result_at(values, labels, sign, loss, index) ==
    IF index = 1
    THEN [thr |-> NegInf, thr_err |-> loss[1]]
    ELSE IF index = Len(labels)
         THEN last_index_case(values, labels, sign, loss, index)
         ELSE [thr |-> Fin(values[index]), thr_err |-> loss[index]]

\* lines 134-156 on the masked loss vector
select(values, labels, sign, loss) ==
    result_at(values, labels, sign, loss, argmin(loss))

\* lines 123-156, on the sorted values and labels
find_threshold_sorted(values, labels, sign) ==
    select(values, labels, sign, masked_loss(values, labels, sign))

\* _find_threshold(values, labels, sign) when argsort returns the order p
find_threshold(values, labels, sign, p) ==
    find_threshold_sorted(Take(values, p), Take(labels, p), sign)

\* --------------------------------------- specification: _find_threshold
LabelSet == {0, 1, -1, HeavyWeight, -HeavyWeight}

SeqsUpTo(S, n) == UNION {[1..k -> S] : k \in 1..n}

NoRet == [thr |-> None, thr_err |-> 0]
NoLoss == [num |-> 0, den |-> 0]

InitFT ==
    /\ ft_values \in SeqsUpTo(1..MaxVal, MaxLen)
    /\ ft_labels \in {l \in [1..Len(ft_values) -> LabelSet] : sum_of_labels(l) > 0}
    /\ ft_sign \in {-1, 1}
    /\ ft_ret = NoRet
    /\ X = <<>> /\ y = <<>>
    /\ threshold_ = None /\ j_ = None /\ sign_ = None
    /\ best_loss = None /\ tried = <<>>
    /\ Xt = <<>> /\ responses = <<>> /\ loss_ret = NoLoss

FindThreshold ==
    /\ \E p \in argsort(ft_values) :
          ft_ret' = find_threshold(ft_values, ft_labels, ft_sign, p)
    /\ UNCHANGED <<ft_values, ft_labels, ft_sign>>
    /\ UNCHANGED <<data_vars, model_vars, call_vars>>

\* s with its entries i and i + 1 exchanged
Swap(s, i) ==
    [k \in 1..Len(s) |-> IF k = i THEN s[i + 1] ELSE IF k = i + 1 THEN s[i] ELSE s[k]]

\* the caller hands over the same samples in another order
Reorder ==
    /\ \E i \in 1..(Len(ft_values) - 1) :
          /\ ft_values' = Swap(ft_values, i)
          /\ ft_labels' = Swap(ft_labels, i)
    /\ UNCHANGED <<ft_sign, ft_ret>>
    /\ UNCHANGED <<data_vars, model_vars, call_vars>>

NextFT == FindThreshold \/ Reorder

SpecFT == InitFT /\ [][NextFT]_vars

\* ----------------------------------------------------------------- _fit
NumRows(M) == Len(M)
NumCols(M) == Len(M[1])

\* X[:, i] for the 0-based column index i
Column(M, i) == [r \in 1..Len(M) |-> M[r][i + 1]]

\* for sign in [-1, 1]
Signs == <<-1, 1>>

\* mutant of BestInit: best_loss starts at 0
BestInit_zero == [feature |-> 0, threshold |-> None, loss |-> Fin(0), sign |-> 1]

\* best_feature, best_threshold, best_loss, best_sign = 0, None, np.inf, 1
BestInit == [feature |-> 0, threshold |-> None, loss |-> PosInf, sign |-> 1]

\* mutant of Update: the comparison with best_loss left out
Update_always(best, i, res, sign) ==
    [feature |-> i, threshold |-> res.thr,
     loss |-> Fin(res.thr_err), sign |-> sign]

\* if loss < best_loss: best_... = i, threshold, loss, sign
Update(best, i, res, sign) ==
    IF Lt(Fin(res.thr_err), best.loss)
    THEN [feature |-> i, threshold |-> res.thr,
          loss |-> Fin(res.thr_err), sign |-> sign]
    ELSE best

\* What the calls _find_threshold(column i, y, sign) of one _fit can return,
\* as the pairs (result for sign -1, result for sign 1): one pair for every
\* order argsort may give the column (the two calls sort the same array,
\* and get the same order)
ColumnResults(M, labels, i) ==
    {[s \in 1..Len(Signs) |->
         find_threshold(Column(M, i), labels, Signs[s], p)] :
        p \in argsort(Column(M, i))}

\* one such pair for every column of M, columns 0 .. d-1
RECURSIVE FitResults(_, _, _)
FitResults(M, labels, d) ==
    IF d = 0 THEN {<<>>}
    ELSE {Append(rs, r) : rs \in FitResults(M, labels, d - 1),
                          r \in ColumnResults(M, labels, d - 1)}

\* the branch X.ndim == 1 after k turns of the loop over the signs, the
\* vector X being the only column of the data; rs[1] holds what the two
\* calls return
RECURSIVE fit_vector(_, _)
fit_vector(rs, k) ==
    IF k = 0 THEN BestInit
    ELSE Update(fit_vector(rs, k - 1), 0, rs[1][k], Signs[k])

\* the branch over the columns after k turns of the inner loop (column
\* i = (k - 1) \div 2, then sign); rs[i + 1] holds what the calls on column
\* i return
RECURSIVE fit_matrix(_, _)
fit_matrix(rs, k) ==
    IF k = 0 THEN BestInit
    ELSE LET i == (k - 1) \div Len(Signs)
             s == ((k - 1) % Len(Signs)) + 1
         IN Update(fit_matrix(rs, k - 1), i, rs[i + 1][s], Signs[s])

\* _fit's locals (best_feature, best_threshold, best_loss, best_sign) at
\* line 58
fit(nd, rs) ==
    IF nd = 1 THEN fit_vector(rs, Len(Signs))
    ELSE fit_matrix(rs, Len(Signs) * Len(rs))

IsFitted == threshold_.kind # "none"

\* X.ndim of the array handed to _fit: data of one feature comes as a
\* vector or as a matrix of one column
Ndims(M) == IF NumCols(M) = 1 THEN {1, 2} ELSE {2}

Fit ==
    /\ \E rs \in FitResults(X, y, NumCols(X)) :
         \E nd \in Ndims(X) :
            LET best == fit(nd, rs)
            IN /\ threshold_' = best.threshold
               /\ j_' = IntOf(best.feature)
               /\ sign_' = IntOf(best.sign)
               /\ best_loss' = best.loss
               /\ tried' = rs
    /\ Xt' = <<>> /\ responses' = <<>> /\ loss_ret' = NoLoss
    /\ UNCHANGED <<ft_vars, data_vars>>

\* ------------------------------------------------------------- _predict
\* mutant of predict: > in place of >=
predict_strict(M, j, threshold, sign) ==
    [r \in 1..Len(M) |->
        IF Lt(threshold, Fin(M[r][j + 1])) THEN sign ELSE -sign]

\* np.where(X[:, self.j_] >= self.threshold_, self.sign_, -self.sign_)
predict(M, j, threshold, sign) ==
    [r \in 1..Len(M) |->
        IF ~Lt(Fin(M[r][j + 1]), threshold) THEN sign ELSE -sign]

Matrices(n, d, V) == [1..n -> [1..d -> V]]

\* the test matrices: as many columns as the training data, at most
\* TestCells entries
TestInputs ==
    UNION {Matrices(m, NumCols(X), 1..MaxFeat) :
              m \in {k \in 1..TestCells : k * NumCols(X) <= TestCells}}

Predict ==
    /\ IsFitted
    /\ \E M \in TestInputs :
         /\ Xt' = M
         /\ responses' = predict(M, j_.val, threshold_, sign_.val)
    /\ loss_ret' = NoLoss
    /\ UNCHANGED <<ft_vars, data_vars, model_vars>>

\* ---------------------------------------------------------------- _loss
\* metrics.misclassification_error(y_true, y_pred): the fraction of
\* entries that differ, kept as numerator and denominator
misclassification_error(y_true, y_pred) ==
    [num |-> Cardinality({i \in 1..Len(y_true) : y_true[i] # y_pred[i]}),
     den |-> Len(y_true)]

\* misclassification_error(y, self.predict(X))
Loss ==
    /\ IsFitted
    /\ \E M \in TestInputs :
         \E yt \in [1..Len(M) -> {-1, 1}] :
            loss_ret' = misclassification_error(
                            yt, predict(M, j_.val, threshold_, sign_.val))
    /\ Xt' = <<>> /\ responses' = <<>>
    /\ UNCHANGED <<ft_vars, data_vars, model_vars>>

\* ------------------------------------------- specifications: estimator
Shapes(rows, cells) ==
    {sh \in (1..rows) \X (1..cells) : sh[1] * sh[2] <= cells}

\* a DecisionStump just constructed, and the training data it will be given
InitData(rows, cells, L) ==
    /\ \E sh \in Shapes(rows, cells) :
         /\ X \in Matrices(sh[1], sh[2], 1..MaxFeat)
         /\ y \in {l \in [1..sh[1] -> L] : sum_of_labels(l) > 0}
    /\ threshold_ = None /\ j_ = None /\ sign_ = None
    /\ best_loss = None /\ tried = <<>>
    /\ Xt = <<>> /\ responses = <<>> /\ loss_ret = NoLoss
    /\ ft_values = <<>> /\ ft_labels = <<>> /\ ft_sign = 0 /\ ft_ret = NoRet

\* weighted labels, as a boosting caller passes them
InitFit == InitData(FitRows, FitCells, LabelSet)

\* the one _fit of a freshly constructed estimator
FitOnce == ~IsFitted /\ Fit

NextFit == FitOnce

SpecFit == InitFit /\ [][NextFit]_vars

\* plain labels -1 and +1
Init == InitData(LifeRows, LifeCells, {-1, 1})

Next == Fit \/ Predict \/ Loss

Spec == Init /\ [][Next]_vars

\* ------------------------------------------------ reference definitions
Returned == ft_ret.thr.kind # "none"

\* the class a label encodes; 0 carries no weight and no class
ClassOf(l) == IF l > 0 THEN 1 ELSE IF l < 0 THEN -1 ELSE 0

\* v >= thr for a finite feature value v and a threshold that may be infinite
Geq(v, thr) ==
    CASE thr.kind = "ninf" -> TRUE
      [] thr.kind = "inf" -> FALSE
      [] OTHER -> v >= thr.val

\* what the rule "value >= thr -> sign, else -sign" predicts for value v
Rule(v, thr, sign) == IF Geq(v, thr) THEN sign ELSE -sign

\* weight misclassified by the rule, as a numerator over sum_of_labels
RuleError(values, labels, sign, thr) ==
    SumSeq([i \in 1..Len(values) |->
              IF ClassOf(labels[i]) # Rule(values[i], thr, sign)
              THEN Abs(labels[i]) ELSE 0])

\* the n+1 candidate cuts: -inf, each value, +inf
Cuts(values) == {NegInf, PosInf} \cup {Fin(values[i]) : i \in 1..Len(values)}

MinRuleError(values, labels, sign) ==
    LET E == {RuleError(values, labels, sign, t) : t \in Cuts(values)}
    IN CHOOSE e \in E : \A f \in E : e <= f

\* C1: the error _find_threshold returns is the minimum weighted
\* misclassification over all n+1 candidate cuts for the given sign.
C1_ReturnsMinimum ==
    Returned => ft_ret.thr_err = MinRuleError(ft_values, ft_labels, ft_sign)

\* C3: the returned error is the error the returned threshold actually
\* incurs under the rule, and lies between 0 and 1.
C3_ErrorOfReturnedThreshold ==
    Returned =>
        /\ ft_ret.thr_err = RuleError(ft_values, ft_labels, ft_sign, ft_ret.thr)
        /\ 0 <= ft_ret.thr_err
        /\ ft_ret.thr_err <= sum_of_labels(ft_labels)

C3_Witness ==
    /\ Returned /\ ft_ret.thr = PosInf /\ ft_sign = 1
    /\ Len(ft_values) = 3 /\ ft_values[1] = ft_values[2]

\* C9: the result depends only on the multiset of (value, label) pairs and
\* the sign: whatever order the caller has since put the samples in
\* (Reorder) and whatever order argsort gives samples of equal value, a
\* call returns the (thr, thr_err) that was returned.
C9_TieOrderIrrelevant ==
    Returned =>
        \A p \in argsort(ft_values) :
            find_threshold(ft_values, ft_labels, ft_sign, p) = ft_ret

C9_Witness ==
    /\ Returned
    /\ Cardinality(argsort(ft_values)) > 1
    /\ \E i, k \in 1..Len(ft_values) :
          ft_values[i] = ft_values[k] /\ ft_labels[i] * ft_labels[k] < 0

\* C10: with no zero label, the search with sign -1 returns what the search
\* with sign +1 returns on the negated labels, the last-index branch
\* included.
C10_SignSymmetry ==
    (Returned /\ ft_sign = -1 /\ \A i \in 1..Len(ft_labels) : ft_labels[i] # 0) =>
        \A p \in argsort(ft_values) :
            find_threshold(ft_values,
                           [i \in 1..Len(ft_labels) |-> -ft_labels[i]],
                           1, p) = ft_ret

C10_Witness ==
    /\ Returned /\ ft_sign = -1 /\ ft_ret.thr = PosInf
    /\ \A i \in 1..Len(ft_labels) : ft_labels[i] # 0

\* ------------------------------------------------------ claims on _fit
Features == 0..(NumCols(X) - 1)

\* weight the stump (j, thr, s) misclassifies on the training data
StumpError(j, thr, s) == RuleError(Column(X, j), y, s, thr)

\* number of training samples the stump (j, thr, s) misclassifies
StumpCount(j, thr, s) ==
    Cardinality({r \in 1..NumRows(X) :
                    y[r] # 0 /\ ClassOf(y[r]) # Rule(X[r][j + 1], thr, s)})

\* C2: the stump _fit stores has the minimum weighted error over every
\* feature, both signs and every threshold, -inf and +inf included.
C2_FitMinimisesWeightedError ==
    IsFitted =>
        \A j \in Features : \A s \in {-1, 1} : \A t \in Cuts(Column(X, j)) :
            StumpError(j_.val, threshold_, sign_.val) <= StumpError(j, t, s)

\* a fit over two features where the stored stump is not a minimiser of
\* the count of misclassified samples
C2_Witness ==
    /\ IsFitted /\ NumCols(X) = 2
    /\ \E j \in Features : \E s \in {-1, 1} : \E t \in Cuts(Column(X, j)) :
          /\ StumpCount(j, t, s) < StumpCount(j_.val, threshold_, sign_.val)
          /\ StumpError(j_.val, threshold_, sign_.val) < StumpError(j, t, s)

\* C4: the error _fit keeps is at most the error _find_threshold returned
\* for sign -1 and for sign +1, on every feature column.
C4_BestOfBothSigns ==
    IsFitted =>
        \A j \in Features : \A s \in 1..Len(Signs) :
            ~Lt(Fin(tried[j + 1][s].thr_err), best_loss)

\* a fit that chose sign +1 on the second feature, strictly better than
\* both results on the first
C4_Witness ==
    /\ IsFitted /\ NumCols(X) >= 2 /\ sign_.val = 1 /\ j_.val = 1
    /\ \A s \in 1..Len(Signs) : Lt(best_loss, Fin(tried[1][s].thr_err))

\* single-feature data with both classes, every negative-label value
\* strictly below every positive-label value
Separable ==
    /\ NumCols(X) = 1
    /\ \E r \in 1..NumRows(X) : y[r] < 0
    /\ \E r \in 1..NumRows(X) : y[r] > 0
    /\ \A a, b \in 1..NumRows(X) : (y[a] < 0 /\ y[b] > 0) => X[a][1] < X[b][1]

\* C6: on separable single-feature data _fit keeps error 0, sign +1 and a
\* threshold above every negative-class value and at most every
\* positive-class value.
C6_SeparableData ==
    (IsFitted /\ Separable) =>
        /\ best_loss = Fin(0)
        /\ StumpError(j_.val, threshold_, sign_.val) = 0
        /\ sign_.val = 1
        /\ threshold_.kind = "fin"
        /\ \A r \in 1..NumRows(X) :
              /\ y[r] < 0 => X[r][1] < threshold_.val
              /\ y[r] > 0 => threshold_.val <= X[r][1]

C6_Witness ==
    /\ IsFitted /\ Separable /\ NumRows(X) = 3
    /\ \A r \in 1..NumRows(X) : y[r] # 0

OneClass ==
    \/ \A r \in 1..NumRows(X) : y[r] > 0
    \/ \A r \in 1..NumRows(X) : y[r] < 0

\* C7: when every training label has the same class, _fit keeps error 0
\* and the fitted rule predicts that class for every training sample.
C7_OneClass ==
    (IsFitted /\ OneClass) =>
        /\ best_loss = Fin(0)
        /\ \A r \in 1..NumRows(X) :
              Rule(X[r][j_.val + 1], threshold_, sign_.val) = ClassOf(y[r])

C7_Witness ==
    /\ IsFitted /\ OneClass /\ NumRows(X) = 3
    /\ sign_.val = -1 /\ threshold_ = PosInf

\* ------------------------------------------- claims on the estimator
\* C5: _predict returns sign_ for the rows whose feature j_ is at least
\* threshold_ and -sign_ for the others; a threshold of -inf gives sign_
\* for every row, +inf gives -sign_ for every row.
C5_PredictionRule ==
    responses # <<>> =>
        /\ Len(responses) = Len(Xt)
        /\ \A r \in 1..Len(Xt) :
              /\ threshold_.kind = "ninf" => responses[r] = sign_.val
              /\ threshold_.kind = "inf" => responses[r] = -sign_.val
              /\ threshold_.kind = "fin" =>
                    /\ Xt[r][j_.val + 1] >= threshold_.val
                          => responses[r] = sign_.val
                    /\ Xt[r][j_.val + 1] < threshold_.val
                          => responses[r] = -sign_.val

C5_Witness ==
    /\ responses # <<>> /\ threshold_.kind = "fin" /\ j_.val = 1
    /\ Xt[1][j_.val + 1] = threshold_.val /\ responses[1] = sign_.val

\* the method called last, read off what the calls leave behind
LastCall ==
    IF responses # <<>> THEN "predict"
    ELSE IF loss_ret.den > 0 THEN "loss"
    ELSE IF tried # <<>> THEN "fit"
    ELSE "init"

\* C8: the three attributes are unset after construction; every _fit sets
\* all three; no _predict and no _loss changes any of them.
C8_Lifecycle ==
    /\ threshold_ = None /\ j_ = None /\ sign_ = None
    /\ [][/\ LastCall' = "fit" =>
                /\ threshold_'.kind # "none"
                /\ j_'.kind = "int"
                /\ sign_'.kind = "int"
          /\ LastCall' \in {"predict", "loss"} =>
                UNCHANGED <<threshold_, j_, sign_>>]_vars

\* a fitted estimator whose last call was a _loss
C8_Witness ==
    /\ IsFitted /\ j_ = IntOf(1) /\ sign_ = IntOf(-1)
    /\ loss_ret.den > 0 /\ loss_ret.num > 0

====
